---- MODULE Spec2Model ----
(***************************************************************************)
(* Bank statement -> accounting vouchers (src/main.py).                    *)
(*                                                                         *)
(* Conventions of the model                                                *)
(*  - Text that the program inspects (summaries, keywords, voucher         *)
(*    numbers) is a sequence of characters, so that strip, substring       *)
(*    containment and number formatting are computed.  A character is a    *)
(*    one-character string, or its code point ("U+3000") when a string of  *)
(*    the module cannot hold it.                                           *)
(*  - Column names and account names are opaque strings.  The Chinese      *)
(*    literals of the source are transliterated to ASCII (the original is  *)
(*    given in a comment next to each).                                    *)
(*  - Lengths are Python floats in points, computed with the rounding of   *)
(*    IEEE 754 binary64 in the order in which the source computes them.    *)
(*  - Amounts are integers (pandas float64 values without rounding).       *)
(*  - An empty cell of the file is the NaN pandas reads it as.             *)
(*  - register_chinese_font and load_config are outside the model: the    *)
(*    configuration is given as the dict load_config returns.  A value     *)
(*    read from YAML whose Python type the program depends on is kept as   *)
(*    [kind, v].                                                           *)
(***************************************************************************)
EXTENDS Integers, Sequences, FiniteSets, TLC

VARIABLES
    csv,            \* the input file: whether it exists, the encodings its bytes
                    \* decode under, and the header and rows pandas reads from it
    args,           \* parsed command line (main.py:317-331)
    config,         \* config.yaml contents (main.py:335)
    mapping,        \* the mapping.yaml file: whether it exists and what it holds
    mapping_rules,  \* the list load_mapping returned (main.py:336)
    pc,             \* position of main()
    df,             \* DataFrame returned by parse_csv
    error,          \* the exception that ended the run, or NoError
    vouchers,       \* list returned by build_vouchers
    layout,         \* locals of render_vouchers_to_pdf computed before the loop
    idx,            \* loop index of render_vouchers_to_pdf
    y,              \* vertical cursor of render_vouchers_to_pdf
    canvas,         \* what was drawn: boxes so far, current page, saved flag
    single_pdfs,    \* the documents render_single_vouchers has written
    classify,       \* one call of map_entry_to_accounts (inputs and result)
    table           \* one call of draw_voucher (bounding box and table geometry)

vars == <<csv, args, config, mapping, mapping_rules, pc, df, error, vouchers,
          layout, idx, y, canvas, single_pdfs, classify, table>>

-----------------------------------------------------------------------------
(* Bounds of the model *)

MaxRows == 3          \* rows of the input file
MaxVouchers == 7      \* rows of the input file in the rendering scenarios
MaxPerPage == 7       \* largest vouchers_per_page a configuration supplies
MaxRules == 2         \* length of a mapping rule list
MaxSummaryLen == 2    \* length of a description given to the classifier
MaxBoxSteps == 5      \* number of distinct box coordinates per axis

-----------------------------------------------------------------------------
(* Python helpers *)

\* None, for values that are strings when present; like None it is falsy.
None == ""

\* dict.get(key, default) / Series.get(key, default)
DictGet(d, key, default) == IF key \in DOMAIN d THEN d[key] ELSE default

\* Python's modulo, defined for a negative divisor too.
PyMod(a, b) == IF b > 0 THEN a % b ELSE -((-a) % (-b))

Abs(n) == IF n < 0 THEN -n ELSE n

\* Natural numbers of any size: the sequence of their digits in base 2^15,
\* least significant first, without leading zeros (zero is <<>>).  They hold
\* the 53-bit significands of Python floats and the exact sums, products and
\* quotients before rounding.
Base == 32768
LimbBits == 15

Limb(a, i) == IF i <= Len(a) THEN a[i] ELSE 0

RECURSIVE BTrim(_)
BTrim(a) == IF a # <<>> /\ a[Len(a)] = 0 THEN BTrim(SubSeq(a, 1, Len(a) - 1)) ELSE a

BFromNat(n) ==
    BTrim(<<n % Base, (n \div Base) % Base, n \div (Base * Base)>>)

RECURSIVE BAddFrom(_, _, _, _)
BAddFrom(a, b, i, carry) ==
    IF i > Len(a) /\ i > Len(b) THEN (IF carry = 0 THEN <<>> ELSE <<carry>>)
    ELSE LET x == Limb(a, i) + Limb(b, i) + carry
         IN <<x % Base>> \o BAddFrom(a, b, i + 1, x \div Base)

BAdd(a, b) == BAddFrom(a, b, 1, 0)

RECURSIVE BSubFrom(_, _, _, _)
BSubFrom(a, b, i, borrow) ==
    IF i > Len(a) THEN <<>>
    ELSE LET x == Limb(a, i) - Limb(b, i) - borrow
         IN <<IF x < 0 THEN x + Base ELSE x>>
            \o BSubFrom(a, b, i + 1, IF x < 0 THEN 1 ELSE 0)

\* a - b for a >= b
BSub(a, b) == BTrim(BSubFrom(a, b, 1, 0))

\* -1, 0 or 1 as a < b, a = b or a > b
RECURSIVE BCmpFrom(_, _, _)
BCmpFrom(a, b, i) ==
    IF i = 0 THEN 0
    ELSE IF a[i] < b[i] THEN -1
    ELSE IF a[i] > b[i] THEN 1
    ELSE BCmpFrom(a, b, i - 1)

BCmp(a, b) ==
    IF Len(a) < Len(b) THEN -1
    ELSE IF Len(a) > Len(b) THEN 1
    ELSE BCmpFrom(a, b, Len(a))

RECURSIVE BMulSmallFrom(_, _, _, _)
BMulSmallFrom(a, k, i, carry) ==
    IF i > Len(a) THEN (IF carry = 0 THEN <<>> ELSE <<carry>>)
    ELSE LET x == a[i] * k + carry
         IN <<x % Base>> \o BMulSmallFrom(a, k, i + 1, x \div Base)

\* a * k for 0 <= k < Base
BMulSmall(a, k) == IF k = 0 THEN <<>> ELSE BMulSmallFrom(a, k, 1, 0)

RECURSIVE BMul(_, _)
BMul(a, b) ==
    IF b = <<>> THEN <<>>
    ELSE LET high == BMul(a, Tail(b))
         IN BAdd(BMulSmall(a, Head(b)), IF high = <<>> THEN <<>> ELSE <<0>> \o high)

\* a * 2^n
BShl(a, n) ==
    IF a = <<>> THEN <<>>
    ELSE [i \in 1..(n \div LimbBits) |-> 0] \o BMulSmall(a, 2 ^ (n % LimbBits))

\* floor(a / 2^n)
BShr(a, n) ==
    LET k == n \div LimbBits
        r == n % LimbBits
        d == IF k >= Len(a) THEN <<>> ELSE SubSeq(a, k + 1, Len(a))
    IN BTrim([i \in 1..Len(d) |->
                 (d[i] \div (2 ^ r)) + (Limb(d, i + 1) % (2 ^ r)) * (2 ^ (LimbBits - r))])

RECURSIVE NatBitLen(_)
NatBitLen(n) == IF n = 0 THEN 0 ELSE 1 + NatBitLen(n \div 2)

\* the number of bits of a
BBitLen(a) ==
    IF a = <<>> THEN 0 ELSE LimbBits * (Len(a) - 1) + NatBitLen(a[Len(a)])

\* the largest digit d in lo..(hi - 1) with den * d <= rem
RECURSIVE BQuotDigit(_, _, _, _)
BQuotDigit(rem, den, lo, hi) ==
    IF hi - lo <= 1 THEN lo
    ELSE LET mid == (lo + hi) \div 2
         IN IF BCmp(BMulSmall(den, mid), rem) <= 0
            THEN BQuotDigit(rem, den, mid, hi)
            ELSE BQuotDigit(rem, den, lo, mid)

\* long division of the digits i.. of num by den: [quot, rem]
RECURSIVE BDivFrom(_, _, _)
BDivFrom(num, den, i) ==
    IF i > Len(num) THEN [quot |-> <<>>, rem |-> <<>>]
    ELSE LET high == BDivFrom(num, den, i + 1)
             r    == BTrim(<<num[i]>> \o high.rem)
             d    == IF BCmp(r, den) < 0 THEN 0 ELSE BQuotDigit(r, den, 1, Base)
         IN [quot |-> BTrim(<<d>> \o high.quot), rem |-> BSub(r, BMulSmall(den, d))]

\* short division of the digits i.. of num by 0 < k < Base: [quot, rem]
RECURSIVE BDivSmallFrom(_, _, _)
BDivSmallFrom(num, k, i) ==
    IF i > Len(num) THEN [quot |-> <<>>, rem |-> 0]
    ELSE LET high == BDivSmallFrom(num, k, i + 1)
             r    == high.rem * Base + num[i]
         IN [quot |-> BTrim(<<r \div k>> \o high.quot), rem |-> r % k]

\* the number of zero digits at the low end of a, a not zero
RECURSIVE BLowZeros(_)
BLowZeros(a) == IF Head(a) # 0 THEN 0 ELSE 1 + BLowZeros(Tail(a))

\* floor(num / den) and whether the division is exact, den not zero: the
\* zero digits at the low end of den are dropped from num and den alike
BDivide(num, den) ==
    LET z == BLowZeros(den)
        d == SubSeq(den, z + 1, Len(den))
        n == IF z >= Len(num) THEN <<>> ELSE SubSeq(num, z + 1, Len(num))
        dropped == \E i \in 1..z : Limb(num, i) # 0
    IN IF Len(d) = 1
       THEN LET r == BDivSmallFrom(n, d[1], 1)
            IN [quot |-> r.quot, exact |-> r.rem = 0 /\ ~dropped]
       ELSE LET r == BDivFrom(n, d, 1)
            IN [quot |-> r.quot, exact |-> r.rem = <<>> /\ ~dropped]

\* Python floats (IEEE 754 binary64, round to nearest, ties to even): the
\* value of [neg, man, exp] is (-1)^neg * man * 2^exp, with man of exactly
\* 53 bits, or <<>> with exp = 0 for zero.  Exponents stay far inside the
\* range of the format for the lengths of a page.
Precision == 53

\* the float nearest to (-1)^neg * (n * 2^e + f), with 0 < f < 2^e if
\* inexact (then n has more than Precision + 1 bits) and f = 0 otherwise
FRound(neg, n, e, inexact) ==
    LET Pack(man, exp) == [neg |-> neg, man |-> man, exp |-> exp]
        \* r has Precision bits, or is 2^Precision after rounding up
        Carry(r, exp) ==
            IF BBitLen(r) > Precision THEN Pack(BShr(r, 1), exp + 1) ELSE Pack(r, exp)
        \* c compares the bits dropped from n with half a unit of q
        RoundUp(q, c) == c > 0 \/ (c = 0 /\ (inexact \/ q[1] % 2 = 1))
        Nearest(q, shift) ==
            Carry(IF RoundUp(q, BCmp(BSub(n, BShl(q, shift)), BShl(<<1>>, shift - 1)))
                  THEN BAdd(q, <<1>>) ELSE q,
                  e + shift)
        Fit(len) ==
            IF len <= Precision
            THEN Pack(BShl(n, Precision - len), e - (Precision - len))
            ELSE Nearest(BShr(n, len - Precision), len - Precision)
    IN IF n = <<>> THEN Pack(<<>>, 0) ELSE Fit(BBitLen(n))

\* float(i) for an int i
Float(i) == FRound(i < 0, BFromNat(Abs(i)), 0, FALSE)

FIsZero(a) == a.man = <<>>

\* a + b
FAdd(a, b) ==
    LET \* am and bm are the significands over the common exponent e, and c
        \* compares them
        Sum(am, bm, c, e) ==
            IF a.neg # b.neg /\ c = 0 THEN [neg |-> FALSE, man |-> <<>>, exp |-> 0]
            ELSE FRound(IF a.neg = b.neg \/ c > 0 THEN a.neg ELSE b.neg,
                        IF a.neg = b.neg THEN BAdd(am, bm)
                        ELSE IF c > 0 THEN BSub(am, bm) ELSE BSub(bm, am),
                        e, FALSE)
        Aligned(am, bm, e) == Sum(am, bm, BCmp(am, bm), e)
        AlignTo(e) == Aligned(BShl(a.man, a.exp - e), BShl(b.man, b.exp - e), e)
    IN IF FIsZero(a) /\ FIsZero(b) THEN [a EXCEPT !.neg = a.neg /\ b.neg]
       ELSE IF FIsZero(a) THEN b
       ELSE IF FIsZero(b) THEN a
       ELSE AlignTo(IF a.exp < b.exp THEN a.exp ELSE b.exp)

\* a - b
FSub(a, b) == FAdd(a, [b EXCEPT !.neg = ~b.neg])

\* a * b
FMul(a, b) ==
    IF FIsZero(a) \/ FIsZero(b) THEN [neg |-> a.neg # b.neg, man |-> <<>>, exp |-> 0]
    ELSE FRound(a.neg # b.neg, BMul(a.man, b.man), a.exp + b.exp, FALSE)

\* a / b, b not zero
FDiv(a, b) ==
    IF FIsZero(a) THEN [neg |-> a.neg # b.neg, man |-> <<>>, exp |-> 0]
    ELSE LET d == BDivide(BShl(a.man, Precision + 7), b.man)
         IN FRound(a.neg # b.neg, d.quot, a.exp - b.exp - (Precision + 7), ~d.exact)

\* the float a literal with the decimal digits of `digits` and `places`
\* decimal places denotes, e.g. Decimal(254, 2) for 2.54
Decimal(digits, places) == FDiv(Float(digits), Float(10 ^ places))

\* the characters str.isspace() holds of, which str.strip() removes
Whitespace ==
    {" ", "\t", "\n", "\r", "\f", "U+000B", "U+001C", "U+001D", "U+001E", "U+001F",
     "U+0085", "U+00A0", "U+1680", "U+2000", "U+2001", "U+2002", "U+2003", "U+2004",
     "U+2005", "U+2006", "U+2007", "U+2008", "U+2009", "U+200A", "U+2028", "U+2029",
     "U+202F", "U+205F", "U+3000"}

RECURSIVE LStrip(_)
LStrip(s) == IF s # <<>> /\ Head(s) \in Whitespace THEN LStrip(Tail(s)) ELSE s

RECURSIVE RStrip(_)
RStrip(s) ==
    IF s # <<>> /\ s[Len(s)] \in Whitespace THEN RStrip(SubSeq(s, 1, Len(s) - 1)) ELSE s

\* str.strip()
Strip(s) == RStrip(LStrip(s))

\* `needle in haystack` for str
Contains(needle, haystack) ==
    \E i \in 0..(Len(haystack) - Len(needle)) :
        SubSeq(haystack, i + 1, i + Len(needle)) = needle

DigitChars == <<"0", "1", "2", "3", "4", "5", "6", "7", "8", "9">>

\* decimal digits of a natural number, most significant first
RECURSIVE Digits(_)
Digits(n) ==
    IF n < 10 THEN <<DigitChars[n + 1]>>
    ELSE Digits(n \div 10) \o <<DigitChars[(n % 10) + 1]>>

RECURSIVE ZeroPad(_, _)
ZeroPad(s, width) == IF Len(s) >= width THEN s ELSE ZeroPad(<<"0">> \o s, width)

\* f"{n:03d}": sign first, then zeros up to a total width of 3
Format03d(n) ==
    IF n < 0 THEN <<"-">> \o ZeroPad(Digits(-n), 2) ELSE ZeroPad(Digits(n), 3)

-----------------------------------------------------------------------------
(* load_yaml_file and load_mapping (main.py:64-81) *)

NoError == [type |-> "", msg |-> "", names |-> {}]

\* What yaml.safe_load returns, with its Python type: None, a bool, an int,
\* a str (a sequence of characters), a list or a dict.
YNull    == [kind |-> "null", v |-> <<>>]
YBool(b) == [kind |-> "bool", v |-> b]
YInt(i)  == [kind |-> "int",  v |-> i]
YStr(t)  == [kind |-> "str",  v |-> t]
YList(l) == [kind |-> "list", v |-> l]
YDict(d) == [kind |-> "dict", v |-> d]

\* bool(value): the truth value Python gives a value
bool(value) ==
    CASE value.kind = "null" -> FALSE
      [] value.kind = "bool" -> value.v
      [] value.kind = "int"  -> value.v # 0
      [] value.kind = "str"  -> Len(value.v) # 0
      [] value.kind = "list" -> Len(value.v) # 0
      [] value.kind = "dict" -> DOMAIN value.v # {}

\* a YAML file that is absent, and one that holds `data`
NoFile == [exists |-> FALSE, data |-> YNull]
YamlFile(data) == [exists |-> TRUE, data |-> data]

\* line 66: yaml.safe_load(f) or {}
load_yaml_file(file) == IF bool(file.data) THEN file.data ELSE YDict(<<>>)

\* The ValueError of line 80, "mapping.yaml 内容格式需要是列表"
\* (the content of mapping.yaml must be a list).
MappingFormatError ==
    [type |-> "ValueError", msg |-> "mapping.yaml content must be a list", names |-> {}]

\* load_mapping: [ok, error, rules]
load_mapping(file) ==
    IF ~file.exists THEN [ok |-> TRUE, error |-> NoError, rules |-> <<>>]
    ELSE LET data == load_yaml_file(file)
         IN IF data.kind # "list"
            THEN [ok |-> FALSE, error |-> MappingFormatError, rules |-> <<>>]
            ELSE [ok |-> TRUE, error |-> NoError, rules |-> data.v]

-----------------------------------------------------------------------------
(* try_read_csv (main.py:84-94) *)

\* line 85, in the order tried
encodings == <<"utf-8", "gbk", "gb2312">>

\* open() on a path that does not exist
FileNotFoundError ==
    [type |-> "FileNotFoundError", msg |-> "No such file or directory", names |-> {}]

\* pandas.errors.EmptyDataError: the file has no header line
EmptyDataError ==
    [type |-> "EmptyDataError", msg |-> "No columns to parse from file", names |-> {}]

\* Lines 92-94.  UnicodeDecodeError takes bytes as its second argument; given
\* the str "" the constructor itself raises, and that TypeError is what
\* leaves try_read_csv.
DecodeFailure ==
    [type |-> "TypeError", msg |-> "a bytes-like object is required, not 'str'",
     names |-> {}]

\* pd.read_csv(csv_path, encoding=enc): "decode" stands for the
\* UnicodeDecodeError that line 90 catches
pd_read_csv(file, enc) ==
    IF ~file.exists THEN [ok |-> FALSE, error |-> FileNotFoundError, caught |-> FALSE]
    ELSE IF enc \notin file.decodes
         THEN [ok |-> FALSE, error |-> NoError, caught |-> TRUE]
    ELSE IF file.header = <<>>
         THEN [ok |-> FALSE, error |-> EmptyDataError, caught |-> FALSE]
    ELSE [ok |-> TRUE, error |-> NoError, caught |-> FALSE]

\* the loop of lines 87-91 over the encodings not yet tried
RECURSIVE TryEncodings(_, _)
TryEncodings(file, encs) ==
    IF encs = <<>> THEN [ok |-> FALSE, error |-> DecodeFailure]
    ELSE LET r == pd_read_csv(file, Head(encs))
         IN IF r.caught THEN TryEncodings(file, Tail(encs))
            ELSE [ok |-> r.ok, error |-> r.error]

\* try_read_csv: [ok, error]; when ok the frame is file.header and file.rows
try_read_csv(file) == TryEncodings(file, encodings)

-----------------------------------------------------------------------------
(* parse_csv (main.py:97-156) *)

\* column_aliases, in priority order.  Source literals:
\*   date:    riqi = 日期, jiaoyi_riqi = 交易日期, jizhang_riqi = 记账日期,
\*            fasheng_riqi = 发生日期
\*   summary: zhaiyao = 摘要, fuyan = 附言, yongtu = 用途, shuoming = 说明
\*   debit:   jiefang_jine = 借方金额, jiefang = 借方, shouru = 收入
\*   credit:  daifang_jine = 贷方金额, daifang = 贷方, zhichu = 支出
column_aliases ==
    [date    |-> <<"riqi", "jiaoyi_riqi", "jizhang_riqi", "fasheng_riqi">>,
     summary |-> <<"zhaiyao", "fuyan", "yongtu", "shuoming">>,
     debit   |-> <<"jiefang_jine", "jiefang", "shouru">>,
     credit  |-> <<"daifang_jine", "daifang", "zhichu">>]

\* A header cell is [name, pad]: the text of the name and whether the file
\* surrounds it with blanks.  c.strip() leaves the name.
StripColumns(header) == [i \in DOMAIN header |-> header[i].name]

ColumnSet(columns) == {columns[i] : i \in DOMAIN columns}

\* find_column: the first alias, in declared order, that is a column.
RECURSIVE find_column(_, _)
find_column(possible_names, columns) ==
    IF possible_names = <<>> THEN None
    ELSE IF Head(possible_names) \in ColumnSet(columns) THEN Head(possible_names)
    ELSE find_column(Tail(possible_names), columns)

\* position of a column name in the frame
ColumnIndex(columns, name) ==
    CHOOSE i \in DOMAIN columns :
        columns[i] = name /\ \A j \in DOMAIN columns : columns[j] = name => i <= j

\* the check of line 119
ColumnsMissing(date_col, summary_col, debit_col, credit_col) ==
    date_col = None \/ summary_col = None \/ ~(debit_col # None \/ credit_col # None)

\* The ValueError of line 120.  Its text is fixed:
\*   "CSV 缺少必要的列：日期/摘要/借方或贷方金额"
\* (CSV lacks required columns: date/summary/debit or credit amount);
\* `names` are the logical fields the text mentions.
MissingColumnsError ==
    [type  |-> "ValueError",
     msg   |-> "CSV missing required columns: date/summary/debit or credit amount",
     names |-> {"date", "summary", "debit_or_credit"}]

\* The ValueError of line 134, "日期为空" (the date is empty).
EmptyDateError == [type |-> "ValueError", msg |-> "date is empty", names |-> {}]

\* What pandas.to_datetime raises for text that holds no date.
DateParseError == [type |-> "DateParseError", msg |-> "unknown datetime string format", names |-> {}]

\* Date cells: [kind |-> "nan"] for an empty cell, otherwise the text
\* y<sep>m<sep>d, or text that is no date at all (sep = "?").
\* The separators of the four strptime formats of line 137.
date_formats == <<"/", "-", ".", "">>

\* an empty date accepted as no date
parse_date_SkipEmpty(value) ==
    IF value.kind = "nan" \/ \E i \in DOMAIN date_formats : date_formats[i] = value.sep
    THEN [ok |-> TRUE, error |-> NoError, value |-> value.ymd]
    ELSE [ok |-> FALSE, error |-> DateParseError, value |-> <<>>]

\* parse_date (main.py:132-143): [ok, value] or [ok, error]
parse_date(value) ==
    IF value.kind = "nan" THEN [ok |-> FALSE, error |-> EmptyDateError, value |-> <<>>]
    ELSE IF \E i \in DOMAIN date_formats : date_formats[i] = value.sep
         THEN [ok |-> TRUE, error |-> NoError, value |-> value.ymd]
    ELSE [ok |-> FALSE, error |-> DateParseError, value |-> <<>>]

\* pd.to_numeric(errors="coerce"): a number stays, anything else becomes NaN
to_numeric(cell) == IF cell.kind = "num" THEN cell ELSE [kind |-> "nan", v |-> 0]

\* fillna(0.0) on an amount
fillna_amount(cell) == IF cell.kind = "nan" THEN 0 ELSE cell.v

\* fillna("").astype(str) on a summary
fillna_summary(cell) == IF cell.kind = "nan" THEN <<>> ELSE cell.s

\* lines 148-151
ParseAmount(cell) == fillna_amount(to_numeric(cell))

\* the row mask of line 154
NonZeroMask(row) == DictGet(row, "debit", 0) # 0 \/ DictGet(row, "credit", 0) # 0

\* line 153-154
FilterZero(rows, filter_zero) ==
    IF filter_zero THEN SelectSeq(rows, NonZeroMask) ELSE rows

\* lines 122-130 and 145-151 for one row: select, rename and convert the cells
NormalizeRow(raw, columns, date_col, summary_col, debit_col, credit_col) ==
    LET kept == {"date", "summary"}
                 \cup (IF debit_col # None THEN {"debit"} ELSE {})
                 \cup (IF credit_col # None THEN {"credit"} ELSE {})
    IN [k \in kept |->
          CASE k = "date"    -> parse_date(raw[ColumnIndex(columns, date_col)]).value
            [] k = "summary" -> fillna_summary(raw[ColumnIndex(columns, summary_col)])
            [] k = "debit"   -> ParseAmount(raw[ColumnIndex(columns, debit_col)])
            [] k = "credit"  -> ParseAmount(raw[ColumnIndex(columns, credit_col)])]

\* index of the first row whose date does not parse, 0 if none (line 145:
\* apply calls parse_date row by row and the first exception ends it)
FirstBadDate(rows, columns, date_col) ==
    LET bad == {i \in DOMAIN rows : ~parse_date(rows[i][ColumnIndex(columns, date_col)]).ok}
    IN IF bad = {} THEN 0 ELSE CHOOSE i \in bad : \A j \in bad : i <= j

EmptyFrame == <<>>

\* parse_csv: [ok, error, df]; df is the sequence of normalized rows
parse_csv(file, filter_zero) ==
    LET columns     == StripColumns(file.header)
        date_col    == find_column(column_aliases["date"], columns)
        summary_col == find_column(column_aliases["summary"], columns)
        debit_col   == find_column(column_aliases["debit"], columns)
        credit_col  == find_column(column_aliases["credit"], columns)
    IN IF ~try_read_csv(file).ok
       THEN [ok |-> FALSE, error |-> try_read_csv(file).error, df |-> EmptyFrame]
       ELSE IF ColumnsMissing(date_col, summary_col, debit_col, credit_col)
       THEN [ok |-> FALSE, error |-> MissingColumnsError, df |-> EmptyFrame]
       ELSE LET bad == FirstBadDate(file.rows, columns, date_col)
            IN IF bad # 0
               THEN [ok |-> FALSE,
                     error |-> parse_date(file.rows[bad][ColumnIndex(columns, date_col)]).error,
                     df |-> EmptyFrame]
               ELSE [ok |-> TRUE, error |-> NoError,
                     df |-> FilterZero(
                              [i \in DOMAIN file.rows |->
                                 NormalizeRow(file.rows[i], columns, date_col,
                                              summary_col, debit_col, credit_col)],
                              filter_zero)]

-----------------------------------------------------------------------------
(* map_entry_to_accounts (main.py:159-166) *)

\* A rule is a dict whose keys are among keyword, debit_account,
\* credit_account; a keyword is text, an account an opaque string.

\* a rule matching only a description equal to its keyword
RuleMatches_Equal(rule, summary) ==
    /\ "keyword" \in DOMAIN rule
    /\ rule["keyword"] # <<>>
    /\ rule["keyword"] = summary

\* `keyword and keyword in summary` with keyword = rule.get("keyword"):
\* a missing keyword is None and an empty one is "", both falsy.
RuleMatches(rule, summary) ==
    /\ "keyword" \in DOMAIN rule
    /\ rule["keyword"] # <<>>
    /\ Contains(rule["keyword"], summary)

\* lines 163-165: the pair a matching rule gives
RuleAccounts(rule, fallback_debit, fallback_credit) ==
    <<DictGet(rule, "debit_account", fallback_debit),
      DictGet(rule, "credit_account", fallback_credit)>>

RECURSIVE map_entry_to_accounts(_, _, _, _)
map_entry_to_accounts(summary, rules, fallback_debit, fallback_credit) ==
    IF rules = <<>> THEN <<fallback_debit, fallback_credit>>
    ELSE IF RuleMatches(Head(rules), summary)
         THEN RuleAccounts(Head(rules), fallback_debit, fallback_credit)
    ELSE map_entry_to_accounts(summary, Tail(rules), fallback_debit, fallback_credit)

-----------------------------------------------------------------------------
(* build_vouchers (main.py:169-196) *)

\* "银行流水" (bank statement), the description of a row without one
PLACEHOLDER == <<"b", "a", "n", "k">>

\* lines 172-176: the debit amount unless it is zero, then the credit amount
SelectAmount(row) ==
    IF DictGet(row, "debit", 0) = 0 THEN DictGet(row, "credit", 0)
    ELSE DictGet(row, "debit", 0)

\* no row skipped
SkipRow_Never(amount) == FALSE

\* lines 177-178
SkipRow(amount) == amount = 0

\* line 184
Description(row) ==
    IF Strip(DictGet(row, "summary", <<>>)) = <<>> THEN PLACEHOLDER
    ELSE Strip(DictGet(row, "summary", <<>>))

\* numbering from the row after the starting number
VoucherNumber_OffByOne(start_number, built) == Format03d(start_number + Len(built) + 1)

\* line 185
VoucherNumber(start_number, built) == Format03d(start_number + Len(built))

\* the amount with its sign
VoucherAmount_Signed(amount) == amount

\* line 193
VoucherAmount(amount) == Abs(amount)

\* lines 180-195
MakeVoucher(row, built, rules, start_number, fallback_debit, fallback_credit) ==
    LET accounts == map_entry_to_accounts(DictGet(row, "summary", <<>>), rules,
                                          fallback_debit, fallback_credit)
    IN [number         |-> VoucherNumber(start_number, built),
        date           |-> DictGet(row, "date", <<>>),
        description    |-> Description(row),
        debit_account  |-> accounts[1],
        credit_account |-> accounts[2],
        amount         |-> VoucherAmount(SelectAmount(row))]

\* the voucher put in front of the list
AppendVoucher_Front(built, voucher) == <<voucher>> \o built

\* line 186: vouchers.append(...)
AppendVoucher(built, voucher) == Append(built, voucher)

\* the loop of lines 171-195 from row i on, with `built` emitted so far
RECURSIVE BuildLoop(_, _, _, _, _, _, _)
BuildLoop(rows, i, built, rules, start_number, fallback_debit, fallback_credit) ==
    IF i > Len(rows) THEN built
    ELSE IF SkipRow(SelectAmount(rows[i]))
         THEN BuildLoop(rows, i + 1, built,
                        rules, start_number, fallback_debit, fallback_credit)
    ELSE BuildLoop(rows, i + 1,
                   AppendVoucher(built,
                       MakeVoucher(rows[i], built, rules, start_number,
                                   fallback_debit, fallback_credit)),
                   rules, start_number, fallback_debit, fallback_credit)

build_vouchers(rows, rules, start_number, fallback_debit, fallback_credit) ==
    BuildLoop(rows, 1, <<>>, rules, start_number, fallback_debit, fallback_credit)

-----------------------------------------------------------------------------
(* draw_voucher (main.py:199-272): the box and the table *)

\* reportlab.lib.units: inch = 72.0, cm = inch / 2.54, mm = cm * 0.1, the float
\* 2.834645669291339 = 0x16AD5AB56AD5AC * 2^-51, its significand written in
\* digits of base 2^15, the lowest first
mm == [neg |-> FALSE, man |-> <<21932, 27349, 13674, 181>>, exp |-> -51]

\* lines 16-18
mm_to_pt(value) == FMul(Float(value), mm)

\* reportlab.lib.pagesizes.A4 = (210*mm, 297*mm)
A4 == <<FMul(Float(210), mm), FMul(Float(297), mm)>>

padding == mm_to_pt(6)
line_height == mm_to_pt(6)

\* lines 204 and 213: title_y, then info_y
InfoY(by, height) ==
    FSub(FSub(FSub(FAdd(by, height), padding), FMul(line_height, Float(2))), mm_to_pt(2))

\* the factors 0.25 and 0.38 of lines 223-224
summary_share == Decimal(25, 2)
account_share == Decimal(38, 2)

\* a table of four rows of the row height
TableHeight_FourRows == FMul(line_height, Float(4))

\* line 227
TableHeight == FAdd(FMul(line_height, Float(4)), mm_to_pt(4))

\* lines 238-239: the y coordinates of the three row separators
RowSeparators(table_top) == [i \in 1..3 |-> FSub(table_top, FMul(Float(i), line_height))]

\* lines 225-239: the rectangle and the separators of the table
TableLines(table_top, table_left, table_width, table_height, table_bottom, summary_width, account_width) ==
    LET amount_width == FDiv(FSub(FSub(table_width, summary_width), account_width), Float(2))
        RowLines(row_y, table_right) ==
            [i \in 1..3 |-> [y |-> row_y[i], x1 |-> table_left, x2 |-> table_right]]
    IN [rect |-> [x |-> table_left, y |-> table_bottom,
                  width |-> table_width, height |-> table_height],
        table_top |-> table_top,
        summary_width |-> summary_width,
        account_width |-> account_width,
        amount_width  |-> amount_width,
        \* each column separator: x, from y = table_bottom to y = table_top
        col_lines |-> <<[x |-> FAdd(table_left, summary_width),
                         y1 |-> table_bottom, y2 |-> table_top],
                        [x |-> FAdd(FAdd(table_left, summary_width), account_width),
                         y1 |-> table_bottom, y2 |-> table_top],
                        [x |-> FAdd(FAdd(FAdd(table_left, summary_width), account_width),
                                    amount_width),
                         y1 |-> table_bottom, y2 |-> table_top]>>,
        \* each row separator: y, from x1 = table_left to x2 = table_left + table_width
        row_lines |-> RowLines(RowSeparators(table_top), FAdd(table_left, table_width))]

\* lines 223-224 and 228: the widths of the first two columns and the
\* bottom of the table
TableColumns(table_top, table_left, table_width, table_height) ==
    TableLines(table_top, table_left, table_width, table_height,
               FSub(table_top, table_height),
               FMul(table_width, summary_share), FMul(table_width, account_share))

\* lines 220-239: the table of a voucher drawn in the box (bx, by, width, height);
\* lines 220-222 and 227 give table_top, table_left, table_width, table_height
DrawTable(bx, by, width, height) ==
    TableColumns(FSub(InfoY(by, height), FMul(line_height, Float(2))),
                 FAdd(bx, padding),
                 FSub(width, FMul(Float(2), padding)),
                 TableHeight)

\* draw_voucher: what it puts on the canvas for one voucher
draw_voucher(voucher, bx, by, width, height, page) ==
    [number |-> voucher.number, page |-> page,
     x |-> bx, y |-> by, width |-> width, height |-> height,
     table |-> DrawTable(bx, by, width, height)]

-----------------------------------------------------------------------------
(* render_vouchers_to_pdf (main.py:275-301) *)

ZeroDivisionError == [type |-> "ZeroDivisionError", msg |-> "division by zero", names |-> {}]

\* lines 285-287; vouchers_per_page is not zero here
VoucherHeight(vouchers_per_page, margin, spacing) ==
    FDiv(FSub(FSub(A4[2], FMul(Float(2), margin)),
              FMul(spacing, Float(vouchers_per_page - 1))),
         Float(vouchers_per_page))

\* lines 291 and 297
TopSlot(margin, voucher_height) == FSub(FSub(A4[2], margin), voucher_height)

\* lines 279-291: the values fixed before the loop
RenderLayout(vouchers_per_page, cfg) ==
    LET margin  == mm_to_pt(DictGet(cfg, "margin_mm", 12))
        spacing == mm_to_pt(DictGet(cfg, "spacing_mm", 6))
        voucher_height == VoucherHeight(vouchers_per_page, margin, spacing)
    IN [vouchers_per_page |-> vouchers_per_page,
        margin |-> margin, spacing |-> spacing,
        voucher_height |-> voucher_height,
        voucher_width  |-> FSub(A4[1], FMul(Float(2), margin)),
        x |-> margin,
        top |-> TopSlot(margin, voucher_height)]

\* lines 309-313 of render_single_vouchers: the document of one voucher,
\* voucher_<number>.pdf, with the box draw_voucher is given on its only page
SinglePdf(voucher, cfg) ==
    LET margin == mm_to_pt(DictGet(cfg, "margin_mm", 12))
        voucher_width  == FSub(A4[1], FMul(Float(2), margin))
        voucher_height == FSub(A4[2], FMul(Float(2), margin))
    IN [name |-> voucher.number,
        box |-> draw_voucher(voucher, margin, FSub(FSub(A4[2], margin), voucher_height),
                             voucher_width, voucher_height, 1),
        saved |-> TRUE]

\* a page break after every full page, the last one too
PageBreakAfter_Every(i, vouchers_per_page, n) == PyMod(i + 1, vouchers_per_page) = 0

\* line 295: a page break follows the voucher at index i
PageBreakAfter(i, vouchers_per_page, n) ==
    PyMod(i + 1, vouchers_per_page) = 0 /\ i + 1 # n

NoLayout == [vouchers_per_page |-> 0, margin |-> Float(0), spacing |-> Float(0),
             voucher_height |-> Float(0), voucher_width |-> Float(0), x |-> Float(0), top |-> Float(0)]

EmptyCanvas == [drawn |-> <<>>, page |-> 1, saved |-> FALSE]

-----------------------------------------------------------------------------
(* main (main.py:329-358) *)

\* line 338
StartNumber(a, cfg) ==
    IF "start_number" \in DOMAIN a THEN a["start_number"]
    ELSE DictGet(cfg, "start_number", 1)

\* line 339
VouchersPerPage(a, cfg) ==
    IF "vouchers_per_page" \in DOMAIN a /\ a["vouchers_per_page"] # 0
    THEN a["vouchers_per_page"]
    ELSE DictGet(cfg, "vouchers_per_page", 3)

\* line 340
FilterZeroFlag(cfg) == bool(DictGet(cfg, "filter_zero_amounts", YBool(TRUE)))

\* line 355
Single(a) == "single" \in DOMAIN a /\ a["single"]

\* lines 342-343
FallbackDebit(cfg) == DictGet(cfg, "fallback_debit_account", "")
FallbackCredit(cfg) == DictGet(cfg, "fallback_credit_account", "")

\* line 336
Main_LoadMapping ==
    /\ pc = "start"
    /\ LET r == load_mapping(mapping)
       IN IF r.ok
          THEN /\ mapping_rules' = r.rules
               /\ pc' = "loaded"
               /\ error' = error
          ELSE /\ mapping_rules' = mapping_rules
               /\ pc' = "failed"
               /\ error' = r.error
    /\ UNCHANGED <<csv, args, config, mapping, df, vouchers, layout, idx, y,
                   canvas, single_pdfs, classify, table>>

\* line 345
Main_ParseCsv ==
    /\ pc = "loaded"
    /\ LET r == parse_csv(csv, FilterZeroFlag(config))
       IN IF r.ok
          THEN /\ df' = r.df
               /\ pc' = "parsed"
               /\ error' = error
          ELSE /\ df' = df
               /\ pc' = "failed"
               /\ error' = r.error
    /\ UNCHANGED <<csv, args, config, mapping, mapping_rules, vouchers, layout, idx, y,
                   canvas, single_pdfs, classify, table>>

\* line 346
Main_BuildVouchers ==
    /\ pc = "parsed"
    /\ vouchers' = build_vouchers(df, mapping_rules, StartNumber(args, config),
                                  FallbackDebit(config), FallbackCredit(config))
    /\ pc' = "built"
    /\ UNCHANGED <<csv, args, config, mapping, mapping_rules, df, error, layout, idx, y,
                   canvas, single_pdfs, classify, table>>

\* lines 348-350
Main_NoVouchers ==
    /\ pc = "built"
    /\ vouchers = <<>>
    /\ pc' = "empty"
    /\ UNCHANGED <<csv, args, config, mapping, mapping_rules, df, error, vouchers, layout,
                   idx, y, canvas, single_pdfs, classify, table>>

\* line 352 and lines 276-291: the call and everything before the loop
Render_Begin ==
    /\ pc = "built"
    /\ vouchers # <<>>
    /\ IF VouchersPerPage(args, config) = 0
       THEN /\ pc' = "failed"
            /\ error' = ZeroDivisionError
            /\ UNCHANGED <<layout, y>>
       ELSE /\ pc' = "render"
            /\ layout' = RenderLayout(VouchersPerPage(args, config), config)
            /\ y' = layout'.top
            /\ error' = error
    /\ idx' = 0
    /\ canvas' = EmptyCanvas
    /\ UNCHANGED <<csv, args, config, mapping, mapping_rules, df, vouchers,
                   single_pdfs, classify, table>>

\* lines 293-299: one iteration of the loop
Render_Draw ==
    /\ pc = "render"
    /\ idx < Len(vouchers)
    /\ canvas' = [canvas EXCEPT
                     !.drawn = Append(@, draw_voucher(vouchers[idx + 1], layout.x, y,
                                                      layout.voucher_width,
                                                      layout.voucher_height, canvas.page)),
                     !.page = IF PageBreakAfter(idx, layout.vouchers_per_page, Len(vouchers))
                              THEN @ + 1 ELSE @]
    /\ y' = IF PageBreakAfter(idx, layout.vouchers_per_page, Len(vouchers))
            THEN TopSlot(layout.margin, layout.voucher_height)
            ELSE FSub(y, FAdd(layout.voucher_height, layout.spacing))
    /\ idx' = idx + 1
    /\ UNCHANGED <<csv, args, config, mapping, mapping_rules, pc, df, error, vouchers,
                   layout, single_pdfs, classify, table>>

\* line 301 and line 353
Render_Save ==
    /\ pc = "render"
    /\ idx = Len(vouchers)
    /\ canvas' = [canvas EXCEPT !.saved = TRUE]
    /\ pc' = IF Single(args) THEN "single" ELSE "done"
    /\ UNCHANGED <<csv, args, config, mapping, mapping_rules, df, error, vouchers,
                   layout, idx, y, single_pdfs, classify, table>>

\* lines 355-358 and 306-313: one iteration of the loop of render_single_vouchers
RenderSingle_Draw ==
    /\ pc = "single"
    /\ Len(single_pdfs) < Len(vouchers)
    /\ single_pdfs' = Append(single_pdfs, SinglePdf(vouchers[Len(single_pdfs) + 1], config))
    /\ UNCHANGED <<csv, args, config, mapping, mapping_rules, pc, df, error, vouchers,
                   layout, idx, y, canvas, classify, table>>

\* render_single_vouchers returns, and main after it
RenderSingle_Return ==
    /\ pc = "single"
    /\ Len(single_pdfs) = Len(vouchers)
    /\ pc' = "done"
    /\ UNCHANGED <<csv, args, config, mapping, mapping_rules, df, error, vouchers,
                   layout, idx, y, canvas, single_pdfs, classify, table>>

Next ==
    \/ Main_LoadMapping
    \/ Main_ParseCsv
    \/ Main_BuildVouchers
    \/ Main_NoVouchers
    \/ Render_Begin
    \/ Render_Draw
    \/ Render_Save
    \/ RenderSingle_Draw
    \/ RenderSingle_Return

-----------------------------------------------------------------------------
(* Input files *)

NanDate == [kind |-> "nan", sep |-> "", ymd |-> <<0, 0, 0>>]
DateText(sep, ymd) == [kind |-> "text", sep |-> sep, ymd |-> ymd]
NotADate == [kind |-> "text", sep |-> "?", ymd |-> <<0, 0, 0>>]

NanAmount == [kind |-> "nan", v |-> 0]
Num(v) == [kind |-> "num", v |-> v]
NotANumber == [kind |-> "text", v |-> 0]

NanSummary == [kind |-> "nan", s |-> <<>>]
Text(s) == [kind |-> "str", s |-> s]

Col(name) == [name |-> name, pad |-> FALSE]
Padded(name) == [name |-> name, pad |-> TRUE]

\* the logical field a column name is an alias of, "" for any other column
FieldOf(name) ==
    IF \E f \in DOMAIN column_aliases :
          name \in {column_aliases[f][i] : i \in DOMAIN column_aliases[f]}
    THEN CHOOSE f \in DOMAIN column_aliases :
          name \in {column_aliases[f][i] : i \in DOMAIN column_aliases[f]}
    ELSE ""

\* a file row: under every column the cell that `cells` has for its field
FileRow(header, cells) ==
    [i \in DOMAIN header |->
        IF FieldOf(header[i].name) = "" THEN NanSummary
        ELSE cells[FieldOf(header[i].name)]]

\* A file that exists and decodes under every encoding (ASCII bytes do).
\* Lines under no header line are no rows.
File(header, rowcells) ==
    [exists |-> TRUE,
     decodes |-> {"utf-8", "gbk", "gb2312"},
     header |-> header,
     rows |-> IF header = <<>> THEN <<>>
              ELSE [i \in DOMAIN rowcells |-> FileRow(header, rowcells[i])]]

\* the same content in bytes that are not UTF-8
GbkFile(header, rowcells) == [File(header, rowcells) EXCEPT !.decodes = {"gbk", "gb2312"}]

\* a path without a file, and a file whose bytes no encoding of the list decodes
MissingFile == [exists |-> FALSE, decodes |-> {}, header |-> <<>>, rows |-> <<>>]
BinaryFile  == [exists |-> TRUE,  decodes |-> {}, header |-> <<>>, rows |-> <<>>]

\* the rows the scenarios choose from
RowCredit ==      \* 2024/01/06, credit 500
    [date |-> DateText("/", <<2024, 1, 6>>), summary |-> Text(<<"a", "b">>),
     debit |-> Num(0), credit |-> Num(500)]
RowDebit ==       \* an earlier date, a summary of a blank and a tab, debit 1200
    [date |-> DateText("-", <<2024, 1, 5>>), summary |-> Text(<<" ", "\t">>),
     debit |-> Num(1200), credit |-> NanAmount]
RowZero ==        \* no amount at all
    [date |-> DateText("/", <<2024, 1, 7>>), summary |-> NanSummary,
     debit |-> Num(0), credit |-> NanAmount]
RowDirty ==       \* an unparseable debit cell and a negative credit; the
                  \* summary between an ideographic space and a line feed
    [date |-> DateText(".", <<2024, 1, 4>>), summary |-> Text(<<"U+3000", "b", "\n">>),
     debit |-> NotANumber, credit |-> Num(-300)]
RowBoth ==        \* both amounts present
    [date |-> DateText("/", <<2024, 1, 3>>), summary |-> Text(<<"a">>),
     debit |-> Num(-7), credit |-> Num(5)]
RowNoDate ==      \* empty date cell, with an amount
    [date |-> NanDate, summary |-> Text(<<"a">>),
     debit |-> Num(7), credit |-> Num(0)]
RowNoDateZero ==  \* empty date cell, without an amount
    [date |-> NanDate, summary |-> NanSummary,
     debit |-> NotANumber, credit |-> Num(0)]
RowBadDate ==     \* text that is no date
    [date |-> NotADate, summary |-> Text(<<"b">>),
     debit |-> Num(0), credit |-> Num(9)]

RowChoices == {RowCredit, RowDebit, RowZero, RowDirty, RowBoth,
               RowNoDate, RowNoDateZero, RowBadDate}

SeqsUpTo(S, n) == UNION {[1..k -> S] : k \in 0..n}

StandardHeader == <<Col("riqi"), Col("zhaiyao"), Col("jiefang_jine"), Col("daifang_jine")>>

Headers ==
    {StandardHeader,
     <<Padded("jiaoyi_riqi"), Col("beizhu"), Padded("fuyan"), Col("shouru"), Col("zhichu")>>,
     <<Col("zhaiyao"), Col("riqi"), Col("jiefang")>>,
     <<Col("daifang"), Col("fasheng_riqi"), Col("shuoming")>>,
     <<Col("zhaiyao"), Col("jiefang_jine"), Col("daifang_jine")>>}

\* mapping.yaml of the scenarios.  Accounts: guanli_feiyong = 管理费用,
\* yinhang_cunkuan = 银行存款
SampleRules ==
    <<[keyword |-> <<"a", "b">>, debit_account |-> "guanli_feiyong",
       credit_account |-> "yinhang_cunkuan"],
      [keyword |-> <<"b">>, credit_account |-> "yinhang_cunkuan"]>>

Dict(keys, d) == [k \in keys |-> d[k]]

NoArgs == Dict({}, <<>>)

\* command lines, configurations and mapping files of the pipeline scenarios
Scenarios ==
    {[args |-> NoArgs, config |-> Dict({}, <<>>), mapping |-> NoFile],
     [args |-> [start_number |-> 998, single |-> TRUE],
      config |-> [filter_zero_amounts |-> YBool(FALSE), vouchers_per_page |-> 2,
                  start_number |-> 5, fallback_debit_account |-> "daiding"],
      mapping |-> YamlFile(YList(SampleRules))],
     [args |-> [vouchers_per_page |-> 2, single |-> FALSE],
      config |-> [filter_zero_amounts |-> YStr(<<"n", "o">>), vouchers_per_page |-> 3,
                  start_number |-> -1, fallback_credit_account |-> "daiding"],
      mapping |-> YamlFile(YList(SampleRules))],
     [args |-> [vouchers_per_page |-> 3],
      config |-> [filter_zero_amounts |-> YInt(0)],
      mapping |-> NoFile]}

\* mapping files that hold no list of rules: an empty file, an empty list
\* and a dict
BrokenMappings ==
    {YamlFile(YNull), YamlFile(YList(<<>>)),
     YamlFile(YDict([keyword |-> <<"a">>, debit_account |-> "guanli_feiyong"]))}

\* files that are not plain UTF-8 tables
OtherFiles ==
    {MissingFile, BinaryFile, File(<<>>, <<>>),
     GbkFile(<<Col("riqi"), Col("zhaiyao"), Col("jiefang")>>, <<RowDebit, RowZero>>)}

IdleClassify == [summary |-> <<>>, rules |-> <<>>, fallback_debit |-> "",
                 fallback_credit |-> "", called |-> FALSE, result |-> <<"", "">>]

\* draw_voucher not called: nothing is drawn
IdleTable == [x |-> Float(0), y |-> Float(0), width |-> Float(0), height |-> Float(0),
              called |-> FALSE, drawn |-> <<>>]

\* main() about to start on a given file, command line and configuration
MainAt(file, a, cfg, mapping_file) ==
    /\ csv = file
    /\ args = a
    /\ config = cfg
    /\ mapping = mapping_file
    /\ mapping_rules = <<>>
    /\ pc = "start"
    /\ df = EmptyFrame
    /\ error = NoError
    /\ vouchers = <<>>
    /\ layout = NoLayout
    /\ idx = 0
    /\ y = Float(0)
    /\ canvas = EmptyCanvas
    /\ single_pdfs = <<>>

\* main() is not running: a function of the module is called on its own
NoMain ==
    /\ csv = File(<<>>, <<>>)
    /\ args = NoArgs
    /\ config = NoArgs
    /\ mapping = NoFile
    /\ mapping_rules = <<>>
    /\ pc = "call"
    /\ df = EmptyFrame
    /\ error = NoError
    /\ vouchers = <<>>
    /\ layout = NoLayout
    /\ idx = 0
    /\ y = Float(0)
    /\ canvas = EmptyCanvas
    /\ single_pdfs = <<>>

Start(file, a, cfg, mapping_file) ==
    /\ MainAt(file, a, cfg, mapping_file)
    /\ classify = IdleClassify
    /\ table = IdleTable

Init ==
    \/ \E header \in Headers, sc \in Scenarios :
          \* the longest files have the standard header, the files of the
          \* other headers are one row shorter
          \E rowcells \in SeqsUpTo(RowChoices, IF header = StandardHeader THEN MaxRows
                                                ELSE MaxRows - 1) :
             Start(File(header, rowcells), sc.args, sc.config, sc.mapping)
    \/ \E file \in OtherFiles, sc \in Scenarios :
          Start(file, sc.args, sc.config, sc.mapping)
    \/ \E header \in Headers, rowcells \in {<<RowCredit, RowDebit>>, <<RowNoDate>>},
          mapping_file \in BrokenMappings :
          Start(File(header, rowcells), NoArgs, Dict({}, <<>>), mapping_file)

Spec == Init /\ [][Next]_vars

\* Every header over a pool of columns, on three small files.
ColumnPool ==
    <<Col("riqi"), Padded("jiaoyi_riqi"), Col("zhaiyao"), Col("jiefang"),
      Col("daifang_jine"), Col("zhichu"), Col("beizhu")>>

SubHeader(S) == LET keep(c) == c \in S IN SelectSeq(ColumnPool, keep)

InitHeader ==
    \E S \in SUBSET {ColumnPool[i] : i \in DOMAIN ColumnPool},
       rowcells \in {<<RowCredit, RowDebit>>, <<RowZero>>, <<RowDirty, RowNoDate>>},
       sc \in Scenarios :
        \/ Start(File(SubHeader(S), rowcells), sc.args, sc.config, sc.mapping)
        \/ \E file \in OtherFiles : Start(file, sc.args, sc.config, sc.mapping)
        \/ \E mapping_file \in BrokenMappings :
              Start(File(SubHeader(S), rowcells), sc.args, sc.config, mapping_file)

SpecHeader == InitHeader /\ [][Next]_vars

\* Files of n rows that all get a voucher, under every layout configuration.
RenderRow(i) ==
    [date |-> DateText("/", <<2024, 1, i>>), summary |-> Text(<<"a">>),
     debit |-> Num(i), credit |-> Num(0)]

RenderHeader == <<Col("riqi"), Col("zhaiyao"), Col("jiefang_jine"), Col("daifang_jine")>>

RenderConfigs ==
    {Dict(keys, d) :
        keys \in SUBSET {"vouchers_per_page", "margin_mm", "spacing_mm"},
        d \in [vouchers_per_page : (-2)..MaxPerPage, margin_mm : {150}, spacing_mm : {273}]}

RenderArgs ==
    {NoArgs, [vouchers_per_page |-> 2], [vouchers_per_page |-> 3], [single |-> TRUE]}

InitRender ==
    \E n \in 0..MaxVouchers, a \in RenderArgs, cfg \in RenderConfigs,
       mapping_file \in {NoFile, YamlFile(YList(SampleRules))} :
        Start(File(RenderHeader, [i \in 1..n |-> RenderRow(i)]), a, cfg, mapping_file)

SpecRender == InitRender /\ [][Next]_vars

\* One call of map_entry_to_accounts.
Strings(alphabet, n) == SeqsUpTo(alphabet, n)

RuleChoices ==
    {[keyword |-> <<"a">>, debit_account |-> "D1", credit_account |-> "C1"],
     [keyword |-> <<"a", "b">>, debit_account |-> "D2"],
     [keyword |-> <<"b">>, credit_account |-> "C3"],
     [keyword |-> <<>>, debit_account |-> "D4", credit_account |-> "C4"],
     [debit_account |-> "D5", credit_account |-> "C5"]}

FallbackChoices == {<<"", "">>, <<"FD", "FC">>}

InitClassify ==
    /\ NoMain
    /\ table = IdleTable
    /\ \E summary \in Strings({"a", "b"}, MaxSummaryLen),
          rules \in SeqsUpTo(RuleChoices, MaxRules),
          fb \in FallbackChoices :
          classify = [summary |-> summary, rules |-> rules, fallback_debit |-> fb[1],
                      fallback_credit |-> fb[2], called |-> FALSE, result |-> <<"", "">>]

Call_map_entry_to_accounts ==
    /\ pc = "call"
    /\ ~classify.called
    /\ classify' = [classify EXCEPT
                       !.called = TRUE,
                       !.result = map_entry_to_accounts(classify.summary, classify.rules,
                                      classify.fallback_debit, classify.fallback_credit)]
    /\ UNCHANGED <<csv, args, config, mapping, mapping_rules, pc, df, error, vouchers,
                   layout, idx, y, canvas, single_pdfs, table>>

SpecClassify == InitClassify /\ [][Call_map_entry_to_accounts]_vars

\* One call of draw_voucher.
BoxSteps == 1..MaxBoxSteps

InitTable ==
    /\ NoMain
    /\ classify = IdleClassify
    /\ \E bx \in {Float(0), mm_to_pt(12)}, by \in {mm_to_pt(10 * k - 10) : k \in BoxSteps},
          w \in {mm_to_pt(30 * k + 6) : k \in BoxSteps},
          h \in {mm_to_pt(40 * k + 11) : k \in BoxSteps} :
          table = [IdleTable EXCEPT !.x = bx, !.y = by, !.width = w, !.height = h]

Call_draw_voucher ==
    /\ pc = "call"
    /\ ~table.called
    /\ table' = [table EXCEPT
                    !.called = TRUE,
                    !.drawn = draw_voucher([number |-> <<"0", "0", "1">>], table.x, table.y,
                                           table.width, table.height, 1)]
    /\ UNCHANGED <<csv, args, config, mapping, mapping_rules, pc, df, error, vouchers,
                   layout, idx, y, canvas, single_pdfs, classify>>

SpecTable == InitTable /\ [][Call_draw_voucher]_vars

-----------------------------------------------------------------------------
(* Properties of the pipeline: vocabulary *)

\* render_vouchers_to_pdf has been called and has not raised
Rendering == pc \in {"render", "single", "done"}

\* build_vouchers has returned
Built ==
    \/ pc \in {"built", "empty"}
    \/ Rendering
    \/ (pc = "failed" /\ error = ZeroDivisionError)

\* parse_csv has returned a frame
Parsed == pc = "parsed" \/ Built

\* parse_csv has raised
ParseFailed == pc = "failed" /\ error \notin {ZeroDivisionError, MappingFormatError}

\* parse_csv has been called
ParseCalled == Parsed \/ ParseFailed

\* int(text) of a voucher number
DigitValue(c) == CHOOSE d \in 0..9 : DigitChars[d + 1] = c

RECURSIVE ParseNat(_)
ParseNat(s) ==
    IF s = <<>> THEN 0 ELSE ParseNat(SubSeq(s, 1, Len(s) - 1)) * 10 + DigitValue(s[Len(s)])

ParseInt(s) == IF Head(s) = "-" THEN -ParseNat(Tail(s)) ELSE ParseNat(s)

\* a normalized row with a nonzero debit or credit amount
HasAmount(row) ==
    ("debit" \in DOMAIN row /\ row["debit"] # 0) \/ ("credit" \in DOMAIN row /\ row["credit"] # 0)

RemoveAt(seq, i) == SubSeq(seq, 1, i - 1) \o SubSeq(seq, i + 1, Len(seq))

\* the columns the header resolves to, and the raw cells under them
ResolvedColumn(field) == find_column(column_aliases[field], StripColumns(csv.header))

\* try_read_csv reads the file
Readable == try_read_csv(csv).ok

ColumnsResolve ==
    /\ Readable
    /\ ResolvedColumn("date") # None
    /\ ResolvedColumn("summary") # None
    /\ (ResolvedColumn("debit") # None \/ ResolvedColumn("credit") # None)

RawCell(i, field) ==
    csv.rows[i][ColumnIndex(StripColumns(csv.header), ResolvedColumn(field))]

\* the amount a source row has in a field: the number in the cell, zero for
\* a missing column, an empty cell or a cell that is not a number
RawAmount(i, field) ==
    IF ResolvedColumn(field) = None THEN 0
    ELSE IF RawCell(i, field).kind = "num" THEN RawCell(i, field).v ELSE 0

\* the source rows, in input order, that have a nonzero amount
RECURSIVE RowsWithAmount(_)
RowsWithAmount(i) ==
    IF i > Len(csv.rows) THEN <<>>
    ELSE (IF RawAmount(i, "debit") # 0 \/ RawAmount(i, "credit") # 0 THEN <<i>> ELSE <<>>)
         \o RowsWithAmount(i + 1)

-----------------------------------------------------------------------------
\* C1: the numbers of the vouchers build_vouchers emits, read as integers,
\* are B, B+1, ..., B+k-1 in emission order, where B is the starting number
\* and k the number of rows with a nonzero debit or credit amount; a row
\* whose amounts are both zero emits nothing and consumes no number, so the
\* result is the same as if that row were absent.
C1_SequentialNumbers ==
    Built =>
      LET B == StartNumber(args, config)
          k == Cardinality({i \in DOMAIN df : HasAmount(df[i])})
      IN /\ Len(vouchers) = k
         /\ \A j \in DOMAIN vouchers : ParseInt(vouchers[j].number) = B + j - 1
         /\ \A i \in DOMAIN df :
               ~HasAmount(df[i]) =>
                  build_vouchers(RemoveAt(df, i), mapping_rules, B,
                                 FallbackDebit(config), FallbackCredit(config)) = vouchers

\* a zero row between two rows that got vouchers, the numbers crossing 999
C1_Witness ==
    /\ pc = "built"
    /\ Len(df) = 3 /\ HasAmount(df[1]) /\ ~HasAmount(df[2]) /\ HasAmount(df[3])
    /\ Len(vouchers) = 2
    /\ vouchers[1].number = <<"9", "9", "8">> /\ vouchers[2].number = <<"9", "9", "9">>

\* C2: the amount of every emitted voucher is strictly positive and is the
\* absolute value of the debit amount of its row when that is nonzero, of
\* the credit amount otherwise (a missing column counting as zero).
C2_PositiveAmount ==
    Built =>
      LET src == SelectSeq(df, HasAmount)
      IN /\ Len(vouchers) = Len(src)
         /\ \A j \in DOMAIN vouchers :
               /\ vouchers[j].amount > 0
               /\ j <= Len(src) =>
                    vouchers[j].amount =
                       (IF DictGet(src[j], "debit", 0) # 0
                        THEN Abs(DictGet(src[j], "debit", 0))
                        ELSE Abs(DictGet(src[j], "credit", 0)))

\* a voucher from a negative credit amount in a file without a debit column
C2_Witness ==
    /\ pc = "built"
    /\ \E i \in DOMAIN df :
          /\ "debit" \notin DOMAIN df[i]
          /\ df[i]["credit"] = -300
    /\ \E j \in DOMAIN vouchers : vouchers[j].amount = 300

-----------------------------------------------------------------------------
(* Empty dates and dirty amounts *)

HasEmptyDate == \E i \in DOMAIN csv.rows : RawCell(i, "date").kind = "nan"

\* every date cell above row i parses
DatesParseBefore(i) == \A j \in 1..(i - 1) : parse_date(RawCell(j, "date")).ok

FirstEmptyDateIsFirstBadDate ==
    \E i \in DOMAIN csv.rows : RawCell(i, "date").kind = "nan" /\ DatesParseBefore(i)

NothingProduced ==
    df = EmptyFrame /\ vouchers = <<>> /\ canvas = EmptyCanvas /\ single_pdfs = <<>>

\* the amounts of the source rows that parse_csv is to return: all of them,
\* or with the zero filter those with a nonzero amount
ExpectedAmounts ==
    LET all  == [i \in DOMAIN csv.rows |-> <<RawAmount(i, "debit"), RawAmount(i, "credit")>>]
        kept(a) == a[1] # 0 \/ a[2] # 0
    IN IF FilterZeroFlag(config) THEN SelectSeq(all, kept) ELSE all

\* dirty amount cells never abort the load and count as zero
DirtyAmountsAreZero ==
    /\ ParseFailed /\ ColumnsResolve =>
          \E i \in DOMAIN csv.rows : ~parse_date(RawCell(i, "date")).ok
    /\ Parsed =>
          [i \in DOMAIN df |-> <<DictGet(df[i], "debit", 0), DictGet(df[i], "credit", 0)>>]
             = ExpectedAmounts

\* C7 as stated: whenever a row of the input has an empty date cell, the load
\* fails with the empty-date error and nothing is produced, whatever the zero
\* filter and the amounts; a dirty amount never aborts the load and is zero.
C7_EmptyDateError_Original ==
    /\ (ParseCalled /\ ColumnsResolve /\ HasEmptyDate) =>
          (pc = "failed" /\ error = EmptyDateError /\ NothingProduced)
    /\ DirtyAmountsAreZero

\* C7 amended: whenever the required columns resolve and a row has an empty
\* date cell, the load fails and nothing is produced, whatever the zero
\* filter and the amounts; the error is the empty-date error when every date
\* above the first empty one parses, and otherwise the error of the first
\* date that does not parse.  A dirty amount never aborts the load and is
\* zero.
C7_EmptyDateFatal ==
    /\ (ParseCalled /\ ColumnsResolve /\ HasEmptyDate) =>
          /\ pc = "failed"
          /\ NothingProduced
          /\ error = IF FirstEmptyDateIsFirstBadDate THEN EmptyDateError ELSE DateParseError
    /\ DirtyAmountsAreZero

\* the load failed on an empty date in a row without amounts behind a row
\* with a dirty amount cell, the zero filter being on
C7_Witness ==
    /\ pc = "failed" /\ error = EmptyDateError
    /\ FilterZeroFlag(config)
    /\ ColumnsResolve
    /\ Len(csv.rows) >= 2
    /\ ResolvedColumn("debit") # None
    /\ RawCell(1, "debit").kind = "text"
    /\ RawCell(2, "date").kind = "nan"
    /\ RawAmount(2, "debit") = 0 /\ RawAmount(2, "credit") = 0

-----------------------------------------------------------------------------
(* Order *)

\* -1, 0 or 1 as the float a is negative, zero or positive
FSign(a) == IF FIsZero(a) THEN 0 ELSE IF a.neg THEN -1 ELSE 1

\* a < b
FLess(a, b) == FSign(FSub(a, b)) < 0

\* Lengths that differ by less than a millionth of a point: equal but for
\* the rounding of the float operations that gave them
FAbs(a) == [a EXCEPT !.neg = FALSE]
Tolerance == Decimal(1, 6)
Near(a, b) == FLess(FAbs(FSub(a, b)), Tolerance)

\* box a is drawn before box b on the paper: an earlier page, or the same
\* page and higher up
Above(a, b) == a.page < b.page \/ (a.page = b.page /\ FLess(b.y, a.y))

\* C8: the k-th voucher is built from the k-th source row (in input order)
\* that has a nonzero amount, carries the k-th number, and is the k-th
\* voucher drawn, above every later one; no stage reorders.
C8_OrderPreserved ==
    /\ Built =>
          LET src == RowsWithAmount(1)
          IN /\ Len(vouchers) = Len(src)
             /\ \A k \in DOMAIN vouchers :
                   k <= Len(src) =>
                     /\ vouchers[k].date = RawCell(src[k], "date").ymd
                     /\ vouchers[k].amount =
                           Abs(IF RawAmount(src[k], "debit") # 0
                               THEN RawAmount(src[k], "debit")
                               ELSE RawAmount(src[k], "credit"))
                     /\ ParseInt(vouchers[k].number) = StartNumber(args, config) + k - 1
    /\ Rendering =>
          /\ Len(canvas.drawn) = idx
          /\ \A k \in DOMAIN canvas.drawn :
                /\ canvas.drawn[k].number = vouchers[k].number
                /\ \A j \in 1..(k - 1) : Above(canvas.drawn[j], canvas.drawn[k])
    /\ pc \in {"single", "done"} => Len(canvas.drawn) = Len(vouchers)
    /\ \A k \in DOMAIN single_pdfs : single_pdfs[k].name = vouchers[k].number

\* three vouchers drawn on two pages, neither their dates nor their amounts
\* ascending
C8_Witness ==
    /\ pc = "done"
    /\ Len(vouchers) = 3
    /\ vouchers[1].date = <<2024, 1, 6>> /\ vouchers[2].date = <<2024, 1, 5>>
    /\ vouchers[1].amount < vouchers[2].amount /\ vouchers[2].amount > vouchers[3].amount
    /\ canvas.drawn[3].page = 2

-----------------------------------------------------------------------------
(* The zero filter *)

\* C10: with the zero filter set the other way parse_csv fails on the same
\* files with the same error, and build_vouchers returns the same vouchers.
C10_FilterIrrelevant ==
    LET other == parse_csv(csv, ~FilterZeroFlag(config))
    IN /\ ParseFailed => (~other.ok /\ other.error = error)
       /\ Parsed => other.ok
       /\ Built =>
            vouchers = build_vouchers(other.df, mapping_rules, StartNumber(args, config),
                                      FallbackDebit(config), FallbackCredit(config))

\* vouchers built with the filter off from a frame that holds a zero row
C10_Witness ==
    /\ pc = "built"
    /\ ~FilterZeroFlag(config)
    /\ \E i \in DOMAIN df : ~HasAmount(df[i]) /\ i < Len(df) /\ HasAmount(df[i + 1])
    /\ Len(vouchers) >= 2

-----------------------------------------------------------------------------
(* Column resolution *)

\* the logical fields the header has no alias for
MissingFields ==
    (IF ResolvedColumn("date") = None THEN {"date"} ELSE {})
    \cup (IF ResolvedColumn("summary") = None THEN {"summary"} ELSE {})
    \cup (IF ResolvedColumn("debit") = None /\ ResolvedColumn("credit") = None
          THEN {"debit_or_credit"} ELSE {})

\* C6: parse_csv resolves the columns only when the header has an alias for
\* date, for description and for debit or credit; otherwise it fails with a
\* missing-required-column error that names the logical fields that are
\* missing, before any voucher is produced.
C6_MissingColumnsNamed ==
    /\ Parsed => (Readable /\ MissingFields = {})
    /\ (ParseCalled /\ Readable /\ MissingFields # {}) =>
          /\ pc = "failed"
          /\ error.type = "ValueError"
          /\ error.names = MissingFields
          /\ NothingProduced

-----------------------------------------------------------------------------
(* Page layout *)

\* the boxes drawn on a page
OnPage(p) == {k \in DOMAIN canvas.drawn : canvas.drawn[k].page = p}

\* C4: when vouchers_per_page <= 0 or the computed voucher height is not
\* positive, a configuration error is reported and no voucher is drawn (the
\* rendering draws nothing and does not complete); no voucher box of
\* non-positive height is ever drawn.
C4_LayoutErrorReported ==
    /\ \A k \in DOMAIN canvas.drawn : FSign(canvas.drawn[k].height) > 0
    /\ (Rendering /\
          (layout.vouchers_per_page <= 0 \/ FSign(layout.voucher_height) <= 0)) =>
             canvas.drawn = <<>> /\ pc = "render"

\* C5: with P >= 1 vouchers per page the voucher at index i is drawn on page
\* floor(i/P) in slot i mod P from the top; a page break follows exactly the
\* vouchers with (i+1) mod P = 0 and i+1 # N, and resets the cursor to the
\* top slot; every page but the last holds P vouchers, the document has
\* ceil(N/P) pages and no page break follows the last voucher.
C5_Pagination ==
    (Rendering /\ layout.vouchers_per_page >= 1) =>
      LET P == layout.vouchers_per_page
          N == Len(vouchers)
          pitch == FAdd(layout.voucher_height, layout.spacing)
          breaks == Cardinality({i \in 0..(idx - 1) : (i + 1) % P = 0 /\ i + 1 # N})
      IN /\ \A k \in DOMAIN canvas.drawn :
               /\ canvas.drawn[k].page = 1 + ((k - 1) \div P)
               /\ Near(canvas.drawn[k].y, FSub(layout.top, FMul(Float((k - 1) % P), pitch)))
         /\ canvas.page = 1 + breaks
         /\ (idx < N /\ idx % P = 0) => y = layout.top
         /\ pc \in {"single", "done"} =>
               /\ Len(canvas.drawn) = N
               /\ canvas.page = (N + P - 1) \div P
               /\ canvas.drawn[N].page = canvas.page
               /\ \A p \in 1..(canvas.page - 1) : Cardinality(OnPage(p)) = P
               /\ Cardinality(OnPage(canvas.page)) \in 1..P

\* four vouchers, three per page: three on page 1, the fourth alone on page 2
C5_Witness ==
    /\ pc = "done"
    /\ layout.vouchers_per_page = 3
    /\ Len(vouchers) = 4
    /\ OnPage(1) = {1, 2, 3} /\ OnPage(2) = {4}
    /\ canvas.page = 2

-----------------------------------------------------------------------------
(* Classification *)

\* the rule's keyword is a substring of the text (the empty keyword is a
\* substring of every text)
KeywordIn(rule, text) == "keyword" \in DOMAIN rule /\ Contains(rule["keyword"], text)

\* the same, for a keyword that is not empty
KeywordFound(rule, text) == KeywordIn(rule, text) /\ rule["keyword"] # <<>>

InsertAt(seq, pos, e) == SubSeq(seq, 1, pos) \o <<e>> \o SubSeq(seq, pos + 1, Len(seq))

Classified(rules) ==
    map_entry_to_accounts(classify.summary, rules, classify.fallback_debit,
                          classify.fallback_credit)

\* the pair of the first rule that Hit accepts, the fallbacks if there is none
FirstRulePair(Hit(_, _)) ==
    LET hits == {i \in DOMAIN classify.rules : Hit(classify.rules[i], classify.summary)}
    IN IF hits = {} THEN <<classify.fallback_debit, classify.fallback_credit>>
       ELSE LET r == classify.rules[CHOOSE i \in hits : \A j \in hits : i <= j]
            IN <<IF "debit_account" \in DOMAIN r THEN r["debit_account"]
                 ELSE classify.fallback_debit,
                 IF "credit_account" \in DOMAIN r THEN r["credit_account"]
                 ELSE classify.fallback_credit>>

\* inserting or removing a rule that Hit rejects leaves the result as it is
NoOpRules(Hit(_, _)) ==
    /\ \A r \in RuleChoices, pos \in 0..Len(classify.rules) :
          ~Hit(r, classify.summary) =>
             Classified(InsertAt(classify.rules, pos, r)) = classify.result
    /\ \A i \in DOMAIN classify.rules :
          ~Hit(classify.rules[i], classify.summary) =>
             Classified(RemoveAt(classify.rules, i)) = classify.result

\* C3 as stated: the result is the pair of the first rule whose keyword is a
\* substring of the description, a side the rule omits being the fallback,
\* and the fallbacks when there is no such rule; a rule whose keyword is not
\* contained in the description can be inserted or removed without effect.
C3_FirstSubstringRule_Original ==
    classify.called =>
      /\ classify.result = FirstRulePair(KeywordIn)
      /\ NoOpRules(KeywordIn)

\* C3 amended: the result is the pair of the first rule whose keyword is
\* not empty and is a substring of the description, a side the rule omits
\* being the fallback, and the fallbacks when there is no such rule (a rule
\* with an empty or missing keyword never matches); a rule whose keyword is
\* empty, missing or not contained in the description can be inserted or
\* removed without effect.
C3_FirstNonEmptySubstringRule ==
    classify.called =>
      /\ classify.result = FirstRulePair(KeywordFound)
      /\ NoOpRules(KeywordFound)

\* the second rule wins over nothing before it and leaves its credit side
\* to the fallback, the keyword being a proper substring of the description
C3_Witness ==
    /\ classify.called
    /\ Len(classify.rules) = 2
    /\ ~KeywordFound(classify.rules[1], classify.summary)
    /\ KeywordFound(classify.rules[2], classify.summary)
    /\ classify.rules[2]["keyword"] # classify.summary
    /\ "debit_account" \notin DOMAIN classify.rules[2]
    /\ classify.result = <<"FD", "C3">>

-----------------------------------------------------------------------------
(* The table of a voucher *)

\* the heights of the four rows of the table, top to bottom
RowHeights(t) ==
    <<FSub(t.table_top, t.row_lines[1].y),
      FSub(t.row_lines[1].y, t.row_lines[2].y),
      FSub(t.row_lines[2].y, t.row_lines[3].y),
      FSub(t.row_lines[3].y, t.rect.y)>>

\* the separators follow from the rectangle, the column widths and the rows
SeparatorsDerived(t) ==
    /\ Near(t.table_top, FAdd(t.rect.y, t.rect.height))
    /\ t.col_lines[1].x = FAdd(t.rect.x, t.summary_width)
    /\ t.col_lines[2].x = FAdd(t.col_lines[1].x, t.account_width)
    /\ t.col_lines[3].x = FAdd(t.col_lines[2].x, t.amount_width)
    /\ Near(FAdd(t.col_lines[3].x, t.amount_width), FAdd(t.rect.x, t.rect.width))
    /\ \A i \in 1..3 :
          /\ t.col_lines[i].y1 = t.rect.y
          /\ t.col_lines[i].y2 = t.table_top
          /\ t.row_lines[i].x1 = t.rect.x
          /\ t.row_lines[i].x2 = FAdd(t.rect.x, t.rect.width)

\* C9 as stated: the table has 4 rows of equal height, its height being 4
\* times the row height, the separators derived from the column widths and
\* the row height.
C9_EqualRows_Original ==
    table.called =>
      LET t == table.drawn.table
          h == RowHeights(t)
      IN /\ Near(h[1], h[2]) /\ Near(h[2], h[3]) /\ Near(h[3], h[4])
         /\ Near(t.rect.height, FMul(h[1], Float(4)))
         /\ SeparatorsDerived(t)

\* C9 amended: the table has 4 rows; the header, debit and credit rows have
\* the row height (6 mm) and the total row is 4 mm higher, the height of the
\* table being 4 times the row height plus 4 mm; the separators are derived
\* from the column widths and the row height.
C9_TallTotalRow ==
    table.called =>
      LET t == table.drawn.table
          h == RowHeights(t)
      IN /\ Near(h[1], line_height) /\ Near(h[2], line_height) /\ Near(h[3], line_height)
         /\ Near(h[4], FAdd(line_height, mm_to_pt(4)))
         /\ t.rect.height = FAdd(FMul(line_height, Float(4)), mm_to_pt(4))
         /\ SeparatorsDerived(t)

\* a table drawn in a box away from the origin
C9_Witness ==
    /\ table.called
    /\ FSign(table.x) > 0 /\ FSign(table.y) > 0
    /\ table.drawn.table.rect.width = FSub(table.width, FMul(Float(2), padding))
    /\ FSign(table.drawn.table.rect.height) > 0

====
